---- MODULE Spec2Model ----
(***************************************************************************)
(* Model of src/app.py: the Mergington High School activities API.         *)
(* State: the in-memory session registry, the in-memory activity catalog   *)
(* and the credential store loaded at start-up.  One action per endpoint;  *)
(* every action records the request it served and the response it gave.    *)
(***************************************************************************)
EXTENDS Integers, Sequences, FiniteSets, TLC

\* ------------------------------------------------------------------ bounds
\* Number of distinct values the token generator hands out in one run.
MaxTokens == 2

\* Number of worker threads, each serving one request in a run of SpecConc.
MaxThreads == 2
Threads == 1 .. MaxThreads

\* Number of further students who sign up in a run of SpecCapacity.
MaxStudents == 9

\* ------------------------------------------------------------ input domains
\* Cookie(None): the request carries no session_token cookie.
None == 0
\* A session_token cookie whose value is the empty string (falsy in Python).
EmptyToken == -1
\* Values secrets.token_urlsafe(32) can return.  A client may also present
\* any of them before (or after) the server has issued it.
Tokens == 1 .. MaxTokens
Cookies == {None, EmptyToken} \cup Tokens

\* Usernames listed in teachers.json, and one ("mallory") that is not.
Usernames == {"alice", "bob", "carol", "mallory"}
\* "s\\u00e9cret" stands for a password holding a non-ASCII character.
NonAscii == {"s\\u00e9cret"}
Passwords == {"secret", "hunter2"} \cup NonAscii
\* What load_teachers() returns for the credential file the process starts
\* with: {username: password}.
TeachersJson ==
  [u \in {"alice", "bob", "carol"} |->
     CASE u = "alice" -> "secret"
       [] u = "bob" -> "hunter2"
       [] u = "carol" -> "s\\u00e9cret"]

\* Activity names and e-mails that requests carry ("Knitting Club" is not in
\* the catalog; zoe@ is in no seed roster).
ActivityNames == {"Chess Club", "Knitting Club"}
Emails == {"michael@mergington.edu", "zoe@mergington.edu"}

\* E-mail of the k-th further student.
StudentEmail(k) == "student" \o ToString(k) \o "@mergington.edu"

\* ------------------------------------------------------------------- state
\* Program state: the module-level globals.
\*   teachers    username -> password, loaded once at import
\*   sessions    session token -> username
\*   activities  activity name -> activity record
\* History of the run:
\*   issued      token -> username, one entry per successful login
\*   revoked     tokens whose session a logout has deleted
\*   request     the request served last
\*   response    the response it got
\*   prior       the catalog as it was when that request arrived
\* Requests in flight on the server's worker threads (used by SpecConc):
\*   threads     thread -> its request, its position in the handler, its status
VARIABLES teachers, sessions, activities, issued, revoked, request, response,
          prior, threads
vars == <<teachers, sessions, activities, issued, revoked, request, response,
          prior, threads>>

\* The seed catalog (module-level dict `activities`).
SeedActivities ==
  [n \in {"Chess Club", "Programming Class", "Gym Class", "Soccer Team",
          "Basketball Team", "Art Club", "Drama Club", "Math Club", "Debate Team"} |->
    CASE n = "Chess Club" ->
           [description |-> "Learn strategies and compete in chess tournaments",
            schedule |-> "Fridays, 3:30 PM - 5:00 PM",
            max_participants |-> 12,
            participants |-> <<"michael@mergington.edu", "daniel@mergington.edu">>]
      [] n = "Programming Class" ->
           [description |-> "Learn programming fundamentals and build software projects",
            schedule |-> "Tuesdays and Thursdays, 3:30 PM - 4:30 PM",
            max_participants |-> 20,
            participants |-> <<"emma@mergington.edu", "sophia@mergington.edu">>]
      [] n = "Gym Class" ->
           [description |-> "Physical education and sports activities",
            schedule |-> "Mondays, Wednesdays, Fridays, 2:00 PM - 3:00 PM",
            max_participants |-> 30,
            participants |-> <<"john@mergington.edu", "olivia@mergington.edu">>]
      [] n = "Soccer Team" ->
           [description |-> "Join the school soccer team and compete in matches",
            schedule |-> "Tuesdays and Thursdays, 4:00 PM - 5:30 PM",
            max_participants |-> 22,
            participants |-> <<"liam@mergington.edu", "noah@mergington.edu">>]
      [] n = "Basketball Team" ->
           [description |-> "Practice and play basketball with the school team",
            schedule |-> "Wednesdays and Fridays, 3:30 PM - 5:00 PM",
            max_participants |-> 15,
            participants |-> <<"ava@mergington.edu", "mia@mergington.edu">>]
      [] n = "Art Club" ->
           [description |-> "Explore your creativity through painting and drawing",
            schedule |-> "Thursdays, 3:30 PM - 5:00 PM",
            max_participants |-> 15,
            participants |-> <<"amelia@mergington.edu", "harper@mergington.edu">>]
      [] n = "Drama Club" ->
           [description |-> "Act, direct, and produce plays and performances",
            schedule |-> "Mondays and Wednesdays, 4:00 PM - 5:30 PM",
            max_participants |-> 20,
            participants |-> <<"ella@mergington.edu", "scarlett@mergington.edu">>]
      [] n = "Math Club" ->
           [description |-> "Solve challenging problems and participate in math competitions",
            schedule |-> "Tuesdays, 3:30 PM - 4:30 PM",
            max_participants |-> 10,
            participants |-> <<"james@mergington.edu", "benjamin@mergington.edu">>]
      [] n = "Debate Team" ->
           [description |-> "Develop public speaking and argumentation skills",
            schedule |-> "Fridays, 4:00 PM - 5:30 PM",
            max_participants |-> 12,
            participants |-> <<"charlotte@mergington.edu", "henry@mergington.edu">>]]

\* ----------------------------------------------------------------- helpers
\* Variant: looks at the first element only.
Contains_firstOnly(seq, x) == Len(seq) > 0 /\ seq[1] = x

\* Python `x in list`.
Contains(seq, x) == \E i \in 1 .. Len(seq) : seq[i] = x

\* Variant: list.insert(0, x).
Append_front(seq, x) == <<x>> \o seq

\* Python list.append(x).
Append_(seq, x) == seq \o <<x>>

\* Variant: `del participants[0]`.
Remove_popFirst(seq, x) == Tail(seq)

\* Variant: overwrites the first occurrence of x with the last element and
\* drops the last slot.
Remove_swapLast(seq, x) ==
  LET i == CHOOSE k \in 1 .. Len(seq) :
             seq[k] = x /\ \A j \in 1 .. (k - 1) : seq[j] # x
      moved == [seq EXCEPT ![i] = seq[Len(seq)]]
  IN  SubSeq(moved, 1, Len(seq) - 1)

\* Python list.remove(x): deletes the first occurrence of x (x is present).
Remove(seq, x) ==
  LET i == CHOOSE k \in 1 .. Len(seq) :
             seq[k] = x /\ \A j \in 1 .. (k - 1) : seq[j] # x
  IN  SubSeq(seq, 1, i - 1) \o SubSeq(seq, i + 1, Len(seq))

\* Variant: every entry of the same user is deleted with it.
Del_allOfUser(d, k) == [t \in {u \in DOMAIN d : d[u] # d[k]} |-> d[t]]

\* Variant: the entry is left in the dict.
Del_keep(d, k) == d

\* Python `del d[k]` for a key that is present.
Del(d, k) == [t \in (DOMAIN d) \ {k} |-> d[t]]

\* Variant: the dict is rebuilt with the new entry only.
SetItem_only(d, k, v) == [t \in {k} |-> v]

\* Python `d[k] = v`.
SetItem(d, k, v) == [t \in (DOMAIN d) \cup {k} |-> IF t = k THEN v ELSE d[t]]

\* secrets.compare_digest(a, b) on str arguments: raises TypeError when either
\* argument holds a non-ASCII character, otherwise tells whether a = b.
compare_digest(a, b) ==
  IF a \in NonAscii \/ b \in NonAscii THEN "TypeError"
  ELSE IF a = b THEN "True" ELSE "False"

\* secrets.token_urlsafe(32): 32 bytes from the operating system's CSPRNG.
\* Modelled as a generator that never repeats a value it has handed out.
token_urlsafe(used) == Tokens \ used

\* `session_token and session_token in sessions`
ValidSession(session_token, reg) ==
  session_token \notin {None, EmptyToken} /\ session_token \in DOMAIN reg

\* Variant: any non-empty cookie passes, the registry is not consulted.
require_auth_anyCookie(session_token, reg) ==
  IF session_token \in {None, EmptyToken} THEN "401" ELSE "teacher"

\* require_auth: "401" when the guard raises, otherwise the username.
require_auth(session_token, reg) ==
  IF session_token \in {None, EmptyToken} \/ session_token \notin DOMAIN reg
  THEN "401"
  ELSE reg[session_token]

\* ------------------------------------------------------ requests, responses
Request(op, cookie, name, email, username, password) ==
  [op |-> op, session_token |-> cookie, activity_name |-> name, email |-> email,
   username |-> username, password |-> password]

\* status, detail/message, the JSON body's fields, and the cookie headers.
Resp(status, message, authenticated, username, set_cookie, delete_cookie) ==
  [status |-> status, message |-> message, authenticated |-> authenticated,
   username |-> username, set_cookie |-> set_cookie, delete_cookie |-> delete_cookie]

HTTPException(status, detail) == Resp(status, detail, FALSE, "", None, FALSE)

\* An exception no handler catches: the server answers 500.
InternalServerError == Resp(500, "Internal Server Error", FALSE, "", None, FALSE)

\* A worker thread: the request it serves (op, cookie, path and query
\* parameters), the line of the handler it is about to execute (pc) and,
\* once pc = "done", the status it answered.
Thread(pc, op, cookie, name, email, status) ==
  [pc |-> pc, op |-> op, session_token |-> cookie, activity_name |-> name,
   email |-> email, status |-> status]

IdleThread == Thread("idle", "", None, "", "", 0)

\* ------------------------------------------------------------------- Init
Init ==
  /\ teachers = TeachersJson
  /\ sessions = [t \in {} |-> ""]
  /\ activities = SeedActivities
  /\ issued = [t \in {} |-> ""]
  /\ revoked = {}
  /\ request = Request("start", None, "", "", "", "")
  /\ response = Resp(0, "", FALSE, "", None, FALSE)
  /\ prior = SeedActivities
  /\ threads = [t \in Threads |-> IdleThread]

\* ---------------------------------------------------------------- actions
\* GET /
root ==
  /\ prior' = activities
  /\ request' = Request("root", None, "", "", "", "")
  /\ response' = Resp(307, "/static/index.html", FALSE, "", None, FALSE)
  /\ UNCHANGED <<threads, teachers, sessions, activities, issued, revoked>>

\* GET /activities
get_activities ==
  /\ prior' = activities
  /\ request' = Request("get_activities", None, "", "", "", "")
  /\ response' = Resp(200, "activities", FALSE, "", None, FALSE)
  /\ UNCHANGED <<threads, teachers, sessions, activities, issued, revoked>>

\* Variant: the password is looked up among all stored passwords, the
\* username is not.
login_anyUsername(username, password) ==
  /\ prior' = activities
  /\ request' = Request("login", None, "", "", username, password)
  /\ IF \E u \in DOMAIN teachers : compare_digest(teachers[u], password) = "True"
     THEN \E token \in token_urlsafe(DOMAIN issued) :
            /\ issued' = (token :> username) @@ issued
            /\ sessions' = SetItem(sessions, token, username)
            /\ response' = Resp(200, "Login successful", FALSE, username, token, FALSE)
     ELSE /\ response' = HTTPException(401, "Invalid credentials")
          /\ UNCHANGED <<sessions, issued>>
  /\ UNCHANGED <<threads, teachers, activities, revoked>>

\* POST /login
login(username, password) ==
  /\ prior' = activities
  /\ request' = Request("login", None, "", "", username, password)
  /\ IF username \in DOMAIN teachers
     THEN LET cmp == compare_digest(teachers[username], password) IN
          CASE cmp = "TypeError" ->
                 /\ response' = InternalServerError
                 /\ UNCHANGED <<sessions, issued>>
            [] cmp = "False" ->
                 /\ response' = HTTPException(401, "Invalid credentials")
                 /\ UNCHANGED <<sessions, issued>>
            [] cmp = "True" ->
                 /\ \E token \in token_urlsafe(DOMAIN issued) :
                      /\ issued' = (token :> username) @@ issued
                      /\ sessions' = SetItem(sessions, token, username)
                      /\ response' = Resp(200, "Login successful", FALSE, username,
                                          token, FALSE)
     ELSE /\ response' = HTTPException(401, "Invalid credentials")
          /\ UNCHANGED <<sessions, issued>>
  /\ UNCHANGED <<threads, teachers, activities, revoked>>

\* POST /logout
logout(session_token) ==
  /\ prior' = activities
  /\ request' = Request("logout", session_token, "", "", "", "")
  /\ IF ValidSession(session_token, sessions)
     THEN /\ sessions' = Del(sessions, session_token)
          /\ revoked' = revoked \cup {session_token}
     ELSE UNCHANGED <<sessions, revoked>>
  /\ response' = Resp(200, "Logged out successfully", FALSE, "", None, TRUE)
  /\ UNCHANGED <<threads, teachers, activities, issued>>

\* Variant: any non-empty cookie counts as a session.
auth_status_cookieOnly(session_token) ==
  /\ prior' = activities
  /\ request' = Request("auth_status", session_token, "", "", "", "")
  /\ IF session_token \notin {None, EmptyToken}
     THEN response' = Resp(200, "", TRUE,
                           IF session_token \in DOMAIN sessions
                           THEN sessions[session_token] ELSE "", None, FALSE)
     ELSE response' = Resp(200, "", FALSE, "", None, FALSE)
  /\ UNCHANGED <<threads, teachers, sessions, activities, issued, revoked>>

\* GET /auth/status
auth_status(session_token) ==
  /\ prior' = activities
  /\ request' = Request("auth_status", session_token, "", "", "", "")
  /\ IF ValidSession(session_token, sessions)
     THEN response' = Resp(200, "", TRUE, sessions[session_token], None, FALSE)
     ELSE response' = Resp(200, "", FALSE, "", None, FALSE)
  /\ UNCHANGED <<threads, teachers, sessions, activities, issued, revoked>>

\* Variant: an unknown activity name is created on first signup.
signup_for_activity_autocreate(activity_name, email, session_token) ==
  /\ prior' = activities
  /\ request' = Request("signup", session_token, activity_name, email, "", "")
  /\ IF require_auth(session_token, sessions) = "401"
     THEN /\ response' = HTTPException(401, "Authentication required")
          /\ UNCHANGED activities
     ELSE IF activity_name \notin DOMAIN activities
     THEN /\ activities' =
               (activity_name :> [description |-> "", schedule |-> "",
                                  max_participants |-> 0,
                                  participants |-> <<email>>]) @@ activities
          /\ response' = Resp(200, "Signed up " \o email \o " for " \o activity_name,
                              FALSE, "", None, FALSE)
     ELSE IF Contains(activities[activity_name].participants, email)
     THEN /\ response' = HTTPException(400, "Student is already signed up")
          /\ UNCHANGED activities
     ELSE /\ activities' =
               [activities EXCEPT ![activity_name].participants = Append_(@, email)]
          /\ response' = Resp(200, "Signed up " \o email \o " for " \o activity_name,
                              FALSE, "", None, FALSE)
  /\ UNCHANGED <<threads, teachers, sessions, issued, revoked>>

\* Variant: a full activity refuses further signups.
signup_for_activity_capped(activity_name, email, session_token) ==
  /\ prior' = activities
  /\ request' = Request("signup", session_token, activity_name, email, "", "")
  /\ IF require_auth(session_token, sessions) = "401"
     THEN /\ response' = HTTPException(401, "Authentication required")
          /\ UNCHANGED activities
     ELSE IF activity_name \notin DOMAIN activities
     THEN /\ response' = HTTPException(404, "Activity not found")
          /\ UNCHANGED activities
     ELSE IF Contains(activities[activity_name].participants, email)
     THEN /\ response' = HTTPException(400, "Student is already signed up")
          /\ UNCHANGED activities
     ELSE IF Len(activities[activity_name].participants)
               >= activities[activity_name].max_participants
     THEN /\ response' = HTTPException(400, "Activity is full")
          /\ UNCHANGED activities
     ELSE /\ activities' =
               [activities EXCEPT ![activity_name].participants = Append_(@, email)]
          /\ response' = Resp(200, "Signed up " \o email \o " for " \o activity_name,
                              FALSE, "", None, FALSE)
  /\ UNCHANGED <<threads, teachers, sessions, issued, revoked>>

\* POST /activities/{activity_name}/signup
signup_for_activity(activity_name, email, session_token) ==
  /\ prior' = activities
  /\ request' = Request("signup", session_token, activity_name, email, "", "")
  /\ IF require_auth(session_token, sessions) = "401"
     THEN /\ response' = HTTPException(401, "Authentication required")
          /\ UNCHANGED activities
     ELSE IF activity_name \notin DOMAIN activities
     THEN /\ response' = HTTPException(404, "Activity not found")
          /\ UNCHANGED activities
     ELSE IF Contains(activities[activity_name].participants, email)
     THEN /\ response' = HTTPException(400, "Student is already signed up")
          /\ UNCHANGED activities
     ELSE /\ activities' =
               [activities EXCEPT ![activity_name].participants = Append_(@, email)]
          /\ response' = Resp(200, "Signed up " \o email \o " for " \o activity_name,
                              FALSE, "", None, FALSE)
  /\ UNCHANGED <<threads, teachers, sessions, issued, revoked>>

\* Variant: a successful unregister also raises the activity's capacity.
unregister_from_activity_freesSpot(activity_name, email, session_token) ==
  /\ prior' = activities
  /\ request' = Request("unregister", session_token, activity_name, email, "", "")
  /\ IF require_auth(session_token, sessions) = "401"
     THEN /\ response' = HTTPException(401, "Authentication required")
          /\ UNCHANGED activities
     ELSE IF activity_name \notin DOMAIN activities
     THEN /\ response' = HTTPException(404, "Activity not found")
          /\ UNCHANGED activities
     ELSE IF ~Contains(activities[activity_name].participants, email)
     THEN /\ response' = HTTPException(400, "Student is not signed up for this activity")
          /\ UNCHANGED activities
     ELSE /\ activities' =
               [activities EXCEPT ![activity_name].participants = Remove(@, email),
                                  ![activity_name].max_participants = @ + 1]
          /\ response' = Resp(200, "Unregistered " \o email \o " from " \o activity_name,
                              FALSE, "", None, FALSE)
  /\ UNCHANGED <<threads, teachers, sessions, issued, revoked>>

\* DELETE /activities/{activity_name}/unregister
unregister_from_activity(activity_name, email, session_token) ==
  /\ prior' = activities
  /\ request' = Request("unregister", session_token, activity_name, email, "", "")
  /\ IF require_auth(session_token, sessions) = "401"
     THEN /\ response' = HTTPException(401, "Authentication required")
          /\ UNCHANGED activities
     ELSE IF activity_name \notin DOMAIN activities
     THEN /\ response' = HTTPException(404, "Activity not found")
          /\ UNCHANGED activities
     ELSE IF ~Contains(activities[activity_name].participants, email)
     THEN /\ response' = HTTPException(400, "Student is not signed up for this activity")
          /\ UNCHANGED activities
     ELSE /\ activities' =
               [activities EXCEPT ![activity_name].participants = Remove(@, email)]
          /\ response' = Resp(200, "Unregistered " \o email \o " from " \o activity_name,
                              FALSE, "", None, FALSE)
  /\ UNCHANGED <<threads, teachers, sessions, issued, revoked>>

Next ==
  \/ root
  \/ get_activities
  \/ \E u \in Usernames, p \in Passwords : login(u, p)
  \/ \E c \in Cookies : logout(c)
  \/ \E c \in Cookies : auth_status(c)
  \/ \E n \in ActivityNames, e \in Emails, c \in Cookies : signup_for_activity(n, e, c)
  \/ \E n \in ActivityNames, e \in Emails, c \in Cookies : unregister_from_activity(n, e, c)

Spec == Init /\ [][Next]_vars

\* ------------------------------------------------------- filling a roster
\* One teacher logs in and signs further students up for Math Club, the
\* activity with the smallest max_participants; student k signs up once
\* students 1 .. k-1 are on the roster.
NextCapacity ==
  \/ login("alice", "secret")
  \/ \E k \in 1 .. MaxStudents, c \in Tokens :
       /\ k <= Len(activities["Math Club"].participants)
                 - Len(SeedActivities["Math Club"].participants) + 1
       /\ signup_for_activity("Math Club", StudentEmail(k), c)

SpecCapacity == Init /\ [][NextCapacity]_vars

\* ------------------------------------------------ handlers on worker threads
\* The server runs each `def` handler on a worker thread, and the handlers
\* take no lock: between two accesses to `sessions` or to a roster another
\* thread may run.  Each action below is one access to shared state together
\* with the thread-local code around it.

\* Logins that open the sessions the concurrent requests carry, and the
\* cookies those requests present.
ConcLogins == {<<"alice", "secret">>}
ConcCookies == Tokens

SetThread(th, rec) == [threads EXCEPT ![th] = rec]
Goto(th, pc) == SetThread(th, [threads[th] EXCEPT !.pc = pc])
Finish(th, status) == SetThread(th, [threads[th] EXCEPT !.pc = "done", !.status = status])

\* A request arrives and is handed to an idle worker thread.
start_request(th, op, cookie, name, email) ==
  /\ threads[th].pc = "idle"
  /\ threads' = SetThread(th, Thread(IF op = "logout" THEN "logout_test"
                                                      ELSE "require_auth_test",
                                     op, cookie, name, email, 0))
  /\ UNCHANGED <<teachers, sessions, activities, issued, revoked, request,
                 response, prior>>

\* require_auth, line 146: `not session_token or session_token not in sessions`
require_auth_test(th) ==
  /\ threads[th].pc = "require_auth_test"
  /\ IF require_auth(threads[th].session_token, sessions) = "401"
     THEN threads' = Finish(th, 401)
     ELSE threads' = Goto(th, "require_auth_read")
  /\ UNCHANGED <<teachers, sessions, activities, issued, revoked, request,
                 response, prior>>

\* require_auth, line 148: `return sessions[session_token]`; KeyError when the
\* entry has been deleted since the test.
require_auth_read(th) ==
  /\ threads[th].pc = "require_auth_read"
  /\ IF threads[th].session_token \in DOMAIN sessions
     THEN threads' = Goto(th, IF threads[th].op = "signup" THEN "signup_test"
                                                           ELSE "unregister_test")
     ELSE threads' = Finish(th, InternalServerError.status)
  /\ UNCHANGED <<teachers, sessions, activities, issued, revoked, request,
                 response, prior>>

\* signup_for_activity, lines 158-169: the activity lookup and
\* `email in activity["participants"]`.
signup_test(th) ==
  /\ threads[th].pc = "signup_test"
  /\ IF threads[th].activity_name \notin DOMAIN activities
     THEN threads' = Finish(th, 404)
     ELSE IF Contains(activities[threads[th].activity_name].participants,
                      threads[th].email)
     THEN threads' = Finish(th, 400)
     ELSE threads' = Goto(th, "signup_append")
  /\ UNCHANGED <<teachers, sessions, activities, issued, revoked, request,
                 response, prior>>

\* signup_for_activity, lines 172-173: `activity["participants"].append(email)`
signup_append(th) ==
  /\ threads[th].pc = "signup_append"
  /\ activities' = [activities EXCEPT ![threads[th].activity_name].participants =
                                        Append_(@, threads[th].email)]
  /\ threads' = Finish(th, 200)
  /\ UNCHANGED <<teachers, sessions, issued, revoked, request, response, prior>>

\* unregister_from_activity, lines 183-194: the activity lookup and
\* `email not in activity["participants"]`.
unregister_test(th) ==
  /\ threads[th].pc = "unregister_test"
  /\ IF threads[th].activity_name \notin DOMAIN activities
     THEN threads' = Finish(th, 404)
     ELSE IF ~Contains(activities[threads[th].activity_name].participants,
                       threads[th].email)
     THEN threads' = Finish(th, 400)
     ELSE threads' = Goto(th, "unregister_remove")
  /\ UNCHANGED <<teachers, sessions, activities, issued, revoked, request,
                 response, prior>>

\* unregister_from_activity, lines 197-198:
\* `activity["participants"].remove(email)`; ValueError when the e-mail has
\* been removed since the test.
unregister_remove(th) ==
  /\ threads[th].pc = "unregister_remove"
  /\ IF Contains(activities[threads[th].activity_name].participants, threads[th].email)
     THEN /\ activities' = [activities EXCEPT ![threads[th].activity_name].participants =
                                               Remove(@, threads[th].email)]
          /\ threads' = Finish(th, 200)
     ELSE /\ threads' = Finish(th, InternalServerError.status)
          /\ UNCHANGED activities
  /\ UNCHANGED <<teachers, sessions, issued, revoked, request, response, prior>>

\* logout, line 130: `session_token and session_token in sessions`
logout_test(th) ==
  /\ threads[th].pc = "logout_test"
  /\ IF ValidSession(threads[th].session_token, sessions)
     THEN threads' = Goto(th, "logout_del")
     ELSE threads' = Finish(th, 200)
  /\ UNCHANGED <<teachers, sessions, activities, issued, revoked, request,
                 response, prior>>

\* logout, lines 131-133: `del sessions[session_token]`; KeyError when the
\* entry has been deleted since the test.
logout_del(th) ==
  /\ threads[th].pc = "logout_del"
  /\ IF threads[th].session_token \in DOMAIN sessions
     THEN /\ sessions' = Del(sessions, threads[th].session_token)
          /\ revoked' = revoked \cup {threads[th].session_token}
          /\ threads' = Finish(th, 200)
     ELSE /\ threads' = Finish(th, InternalServerError.status)
          /\ UNCHANGED <<sessions, revoked>>
  /\ UNCHANGED <<teachers, activities, issued, request, response, prior>>

NextConc ==
  \/ \E l \in ConcLogins : login(l[1], l[2])
  \/ \E th \in Threads, c \in ConcCookies : start_request(th, "logout", c, "", "")
  \/ \E th \in Threads, op \in {"signup", "unregister"}, c \in ConcCookies,
         n \in ActivityNames, e \in Emails : start_request(th, op, c, n, e)
  \/ \E th \in Threads : require_auth_test(th)
  \/ \E th \in Threads : require_auth_read(th)
  \/ \E th \in Threads : signup_test(th)
  \/ \E th \in Threads : signup_append(th)
  \/ \E th \in Threads : unregister_test(th)
  \/ \E th \in Threads : unregister_remove(th)
  \/ \E th \in Threads : logout_test(th)
  \/ \E th \in Threads : logout_del(th)

\* Concurrent requests, from the same start as Spec.
SpecConc == Init /\ [][NextConc]_vars

\* ------------------------------------------------------------- properties
\* The cookie of a request does not resolve in registry reg.
Unresolvable(cookie, reg) == cookie \in {None, EmptyToken} \/ cookie \notin DOMAIN reg

\* The sequence has no element twice.
NoDuplicates(seq) == \A i, j \in 1 .. Len(seq) : i # j => seq[i] # seq[j]

\* C1: a signup or unregister request whose cookie is missing or is not a key
\* of the session registry is answered 401 and changes neither the catalog nor
\* the registry, whatever the activity name and the e-mail are.
C1_UnauthenticatedIsRejected ==
  [][ ( /\ request'.op \in {"signup", "unregister"}
        /\ Unresolvable(request'.session_token, sessions) )
      => ( /\ response'.status = 401
           /\ activities' = activities
           /\ sessions' = sessions ) ]_vars

\* C1 witness: a signup for an unknown activity with a token that is not in
\* the registry was answered 401 (not 404).
C1_Witness ==
  /\ request.op = "signup"
  /\ request.session_token \in Tokens
  /\ request.session_token \notin DOMAIN sessions
  /\ request.activity_name \notin DOMAIN activities
  /\ response.status = 401

\* C2: in every reachable state no e-mail occurs twice in a roster.
C2_RostersHaveNoDuplicates ==
  \A n \in DOMAIN activities : NoDuplicates(activities[n].participants)

\* C2 witness: a signup of an e-mail that was added during the run has just
\* been refused as a duplicate.
C2_Witness ==
  /\ request.op = "signup"
  /\ request.email = "zoe@mergington.edu"
  /\ response.status = 400
  /\ Len(activities["Chess Club"].participants) = 3

\* C3: logout is answered 200 for every cookie, and a token whose session a
\* logout has deleted never authenticates again: it is not in the registry,
\* auth_status with it reports false, signup and unregister with it get 401.
C3_LogoutSucceedsAndRevokes ==
  /\ \A c \in Cookies : ENABLED logout(c)
  /\ request.op = "logout" => response.status = 200
  /\ \A t \in revoked : t \notin DOMAIN sessions
  /\ (request.op = "auth_status" /\ request.session_token \in revoked)
       => response.authenticated = FALSE
  /\ (request.op \in {"signup", "unregister"} /\ request.session_token \in revoked)
       => response.status = 401

\* C3 witness: a token was logged out, the same teacher has logged in again
\* since, and a protected request with the old token was answered 401.
C3_Witness ==
  /\ request.op = "unregister"
  /\ request.session_token \in revoked
  /\ response.status = 401
  /\ \E t \in DOMAIN sessions : sessions[t] = issued[request.session_token]

\* C4: a login whose username is not in the credential store, or whose
\* password differs from the stored one, is answered 401, sets no cookie and
\* changes neither the registry nor the catalog.
C4_BadCredentialsGet401 ==
  [][ ( /\ request'.op = "login"
        /\ \/ request'.username \notin DOMAIN teachers
           \/ teachers[request'.username] # request'.password )
      => ( /\ response'.status = 401
           /\ response'.set_cookie = None
           /\ sessions' = sessions
           /\ activities' = activities ) ]_vars

\* Tokens handed out by a login and not yet logged out.
LiveIssued == (DOMAIN issued) \ revoked

\* C5: a login with a stored username and its matching password is answered
\* 200, stores token -> username and returns the token in the cookie; until
\* a logout with that token, protected requests carrying it pass the gate and
\* auth_status carrying it reports authenticated with that username.
C5_GoodCredentialsOpenSession ==
  /\ ( /\ request.op = "login"
       /\ request.username \in DOMAIN teachers
       /\ teachers[request.username] = request.password )
     => ( /\ response.status = 200
          /\ response.set_cookie \in DOMAIN sessions
          /\ sessions[response.set_cookie] = request.username )
  /\ \A t \in LiveIssued : t \in DOMAIN sessions /\ sessions[t] = issued[t]
  /\ (request.op = "auth_status" /\ request.session_token \in LiveIssued)
       => ( /\ response.authenticated = TRUE
            /\ response.username = issued[request.session_token] )
  /\ (request.op \in {"signup", "unregister"} /\ request.session_token \in LiveIssued)
       => response.status # 401

\* C6: with a valid session, signup and unregister for a name that is not a
\* key of the catalog are answered 404 and the catalog is unchanged.
C6_UnknownActivityIs404 ==
  [][ ( /\ request'.op \in {"signup", "unregister"}
        /\ ~Unresolvable(request'.session_token, sessions)
        /\ request'.activity_name \notin DOMAIN activities )
      => ( /\ response'.status = 404
           /\ activities' = activities ) ]_vars

\* C6 witness: an authenticated unregister for "Knitting Club" got 404.
C6_Witness ==
  /\ request.op = "unregister"
  /\ request.session_token \in DOMAIN sessions
  /\ request.activity_name = "Knitting Club"
  /\ request.activity_name \notin DOMAIN activities
  /\ response.status = 404

\* C7: with a valid session and an existing activity, a signup of an e-mail
\* that is not in the roster is answered 200 and appends it at the end (so
\* the roster grows by one and now holds the e-mail); a signup of an e-mail
\* that is in the roster is answered 400 and changes nothing.
C7_SignupAppendsOnce ==
  [][ ( /\ request'.op = "signup"
        /\ ~Unresolvable(request'.session_token, sessions)
        /\ request'.activity_name \in DOMAIN activities )
      => LET n == request'.activity_name
             e == request'.email
             before == activities[n].participants
             after == activities'[n].participants
         IN  IF \E i \in 1 .. Len(before) : before[i] = e
             THEN response'.status = 400 /\ activities' = activities
             ELSE /\ response'.status = 200
                  /\ after = before \o <<e>>
                  /\ Len(after) = Len(before) + 1
                  /\ \A m \in DOMAIN activities : m # n => activities'[m] = activities[m]
                  /\ DOMAIN activities' = DOMAIN activities ]_vars

\* C7 witness: the first signup of zoe@ for Chess Club has put her last in the
\* roster, and a second signup of zoe@ has just been answered 400.
C7_Witness ==
  /\ request.op = "signup"
  /\ request.activity_name = "Chess Club"
  /\ request.email = "zoe@mergington.edu"
  /\ request.session_token \in DOMAIN sessions
  /\ response.status = 400
  /\ activities["Chess Club"].participants =
       <<"michael@mergington.edu", "daniel@mergington.edu", "zoe@mergington.edu">>

\* C8: with a valid session and an existing activity, unregistering an e-mail
\* that is not in the roster is answered 400 and changes nothing;
\* unregistering one that is in the roster is answered 200 and deletes one
\* occurrence of it, the others keeping their relative order.
C8_UnregisterRemovesOne ==
  [][ ( /\ request'.op = "unregister"
        /\ ~Unresolvable(request'.session_token, sessions)
        /\ request'.activity_name \in DOMAIN activities )
      => LET n == request'.activity_name
             e == request'.email
             before == activities[n].participants
             after == activities'[n].participants
         IN  IF \E i \in 1 .. Len(before) : before[i] = e
             THEN /\ response'.status = 200
                  /\ \E i \in 1 .. Len(before) :
                       /\ before[i] = e
                       /\ after = SubSeq(before, 1, i - 1) \o SubSeq(before, i + 1, Len(before))
                  /\ \A m \in DOMAIN activities : m # n => activities'[m] = activities[m]
                  /\ DOMAIN activities' = DOMAIN activities
             ELSE response'.status = 400 /\ activities' = activities ]_vars

\* C8 witness: michael@ has just been unregistered from the head of a
\* three-entry Chess Club roster; daniel@ and zoe@ remain, in that order.
C8_Witness ==
  /\ request.op = "unregister"
  /\ request.email = "michael@mergington.edu"
  /\ response.status = 200
  /\ activities["Chess Club"].participants =
       <<"daniel@mergington.edu", "zoe@mergington.edu">>

\* C9: a successful login adds exactly one entry to the registry, under a
\* token that was not a key of it, and leaves every other entry as it was.
C9_LoginAddsOneFreshSession ==
  [][ (request'.op = "login" /\ response'.status = 200)
      => LET token == response'.set_cookie
         IN  /\ token \notin DOMAIN sessions
             /\ DOMAIN sessions' = (DOMAIN sessions) \cup {token}
             /\ sessions'[token] = request'.username
             /\ \A t \in DOMAIN sessions : sessions'[t] = sessions[t] ]_vars

\* C9 witness: a login has just succeeded while another teacher's session,
\* opened earlier, is still in the registry.
C9_Witness ==
  /\ request.op = "login"
  /\ response.status = 200
  /\ \E t \in DOMAIN sessions :
       t # response.set_cookie /\ sessions[t] # request.username

\* C10: every token in the registry maps to a username of the credential
\* store.
C10_SessionsBelongToTeachers ==
  \A t \in DOMAIN sessions : sessions[t] \in DOMAIN teachers

\* C10 witness: two teachers hold sessions, and a login by a username that
\* is not in the store has just been refused.
C10_Witness ==
  /\ request.op = "login"
  /\ request.username \notin DOMAIN teachers
  /\ response.status = 401
  /\ \E t1, t2 \in DOMAIN sessions : sessions[t1] # sessions[t2]

\* C14: signup does not look at max_participants: with a valid session, a
\* signup of an e-mail that is not in the roster of an existing activity whose
\* roster is already as long as max_participants, or longer, is answered 200
\* and appends the e-mail.
C14_SignupIgnoresCapacity ==
  [][ ( /\ request'.op = "signup"
        /\ ~Unresolvable(request'.session_token, sessions)
        /\ request'.activity_name \in DOMAIN activities
        /\ ~\E i \in 1 .. Len(activities[request'.activity_name].participants) :
               activities[request'.activity_name].participants[i] = request'.email
        /\ Len(activities[request'.activity_name].participants)
             >= activities[request'.activity_name].max_participants )
      => ( /\ response'.status = 200
           /\ activities'[request'.activity_name].participants =
                activities[request'.activity_name].participants \o <<request'.email>> ) ]_vars

\* C14 witness: a signup has just been accepted and Math Club's roster is
\* longer than its max_participants.
C14_Witness ==
  /\ request.op = "signup"
  /\ request.activity_name = "Math Club"
  /\ response.status = 200
  /\ Len(activities["Math Club"].participants) > activities["Math Club"].max_participants
  /\ activities["Math Club"].participants[Len(activities["Math Club"].participants)]
       = request.email

\* C15: the catalog always has the seed's activity names, descriptions,
\* schedules and max_participants; a step changes the catalog only when it is
\* a signup or an unregister answered 200, and then only in the roster of the
\* activity named in the request.
C15_OnlyRostersChange ==
  [][ /\ DOMAIN activities' = DOMAIN SeedActivities
      /\ \A n \in DOMAIN SeedActivities :
           /\ activities'[n].description = SeedActivities[n].description
           /\ activities'[n].schedule = SeedActivities[n].schedule
           /\ activities'[n].max_participants = SeedActivities[n].max_participants
      /\ activities' # activities
           => ( /\ request'.op \in {"signup", "unregister"}
                /\ response'.status = 200
                /\ \A n \in DOMAIN SeedActivities :
                     n # request'.activity_name => activities'[n] = activities[n] ) ]_vars

\* C15 witness: an unregister has just changed Chess Club's roster.
C15_Witness ==
  /\ request.op = "unregister"
  /\ response.status = 200
  /\ activities # prior
  /\ activities["Chess Club"].participants # SeedActivities["Chess Club"].participants

C17_OnlyLogoutRemovesItsSession ==
  [][ \A t \in DOMAIN sessions :
        \/ t \in DOMAIN sessions' /\ sessions'[t] = sessions[t]
        \/ request'.op = "logout" /\ request'.session_token = t ]_vars

\* C17 witness: a logout was served for a token that is no longer in the
\* registry while another session of the same teacher is still there.
C17_Witness ==
  /\ request.op = "logout"
  /\ request.session_token \in revoked
  /\ \E t \in DOMAIN sessions : sessions[t] = issued[request.session_token]

\* C18: when a signup answered 200 is followed at once by an unregister of
\* the same e-mail from the same activity with a valid session, the unregister
\* is answered 200 and the catalog is again what it was before the signup.
C18_SignupThenUnregisterRestores ==
  [][ ( /\ request.op = "signup"
        /\ response.status = 200
        /\ request'.op = "unregister"
        /\ request'.activity_name = request.activity_name
        /\ request'.email = request.email
        /\ ~Unresolvable(request'.session_token, sessions) )
      => ( /\ response'.status = 200
           /\ activities' = prior ) ]_vars

\* C18 witness: zoe@ has just been unregistered from Chess Club and the
\* catalog is the seed catalog again.
C18_Witness ==
  /\ request.op = "unregister"
  /\ request.email = "zoe@mergington.edu"
  /\ response.status = 200
  /\ activities = SeedActivities
  /\ prior # activities

\* Every worker thread has answered its request.
AllDone == \A th \in Threads : threads[th].pc = "done"

\* Number of occurrences of x in seq.
Count(seq, x) == Cardinality({i \in 1 .. Len(seq) : seq[i] = x})

\* Threads that answered with the given status.
Answered(status) == {th \in Threads : threads[th].status = status}

\* C11: when all the concurrent requests are signups, with valid sessions,
\* of one e-mail that is not in the roster for one existing activity, exactly
\* one is answered 200, the others 400, and the roster then holds the e-mail
\* exactly once.
C11_ConcurrentSignupsAddOnce ==
  \A n \in DOMAIN activities, e \in Emails :
    ( /\ AllDone
      /\ ~Contains(SeedActivities[n].participants, e)
      /\ \A th \in Threads :
           /\ threads[th].op = "signup"
           /\ threads[th].activity_name = n
           /\ threads[th].email = e
           /\ threads[th].status # 401 )
    => ( /\ Cardinality(Answered(200)) = 1
         /\ Answered(200) \cup Answered(400) = Threads
         /\ Count(activities[n].participants, e) = 1 )

\* C12: when all the concurrent requests are unregisters, with valid
\* sessions, of one e-mail that is in the roster of one existing activity,
\* exactly one is answered 200, every other one 400, and no other participant
\* is removed.
C12_ConcurrentUnregistersRemoveOnce ==
  \A n \in DOMAIN activities, e \in Emails :
    ( /\ AllDone
      /\ Contains(SeedActivities[n].participants, e)
      /\ \A th \in Threads :
           /\ threads[th].op = "unregister"
           /\ threads[th].activity_name = n
           /\ threads[th].email = e
           /\ threads[th].status # 401 )
    => ( /\ Cardinality(Answered(200)) = 1
         /\ Answered(200) \cup Answered(400) = Threads
         /\ activities[n].participants = Remove(SeedActivities[n].participants, e) )

\* C13: when all the concurrent requests are logouts carrying one token whose
\* session existed, every one of them is answered 200 and the token is not in
\* the registry afterwards.
C13_ConcurrentLogoutsSucceed ==
  \A c \in Tokens :
    ( /\ AllDone
      /\ c \in revoked
      /\ \A th \in Threads :
           threads[th].op = "logout" /\ threads[th].session_token = c )
    => ( /\ Answered(200) = Threads
         /\ c \notin DOMAIN sessions )

\* C19: when one signup or unregister carrying token c runs together with
\* logouts carrying c, the protected request is answered 401, and then the
\* catalog is unchanged, or it is answered 200, 404 or 400; it never ends in
\* another failure.
C19_GuardRacingLogout ==
  \A c \in Tokens, p \in Threads :
    ( /\ AllDone
      /\ threads[p].op \in {"signup", "unregister"}
      /\ threads[p].session_token = c
      /\ \A th \in Threads \ {p} :
           threads[th].op = "logout" /\ threads[th].session_token = c )
    => ( /\ threads[p].status \in {401, 200, 404, 400}
         /\ threads[p].status = 401 => activities = SeedActivities )

====
